---- MODULE Spec2Model ----
(***************************************************************************)
(* Memos Sync (packages/plugin-obsidian/main.ts): the one-way mirror of a  *)
(* remote snapshot of memos and resources into <folderToSync>/memos and    *)
(* <folderToSync>/resources of an Obsidian vault.                          *)
(*                                                                         *)
(* sync() is an async function: every await is a suspension point, and the *)
(* adapter calls that are not awaited (adapter.write, adapter.writeBinary, *)
(* the awaits inside the forEach(async ...) callbacks) stay in flight      *)
(* while sync() goes on.  Each action below is one synchronous segment of  *)
(* the code (from one resumption to the next suspension) or the settling   *)
(* of one store operation in flight.                                       *)
(***************************************************************************)
EXTENDS Integers, Sequences, FiniteSets, TLC

VARIABLES
    persisted,   \* data.json: what loadData() returns / saveData() stores
    settings,    \* this.settings, the in-memory settings object
    now,         \* the clock read by Date.now()
    remote,      \* what fetchMemosWithResource returns when it succeeds
    files,       \* the vault: path -> content, Absent when there is no file
    dirs,        \* the folders of the vault that exist
    pending,     \* store operations in flight (issued, not yet settled)
    pc,          \* per sync() call: where it is suspended
    locals,      \* per sync() call: const { openAPI, folderToSync, lastSyncTime }
    res,         \* per sync() call: const res = await fetchMemosWithResource()
    notices,     \* per sync() call: the messages of this.log(), in order
    calls,       \* history, per call: the store calls it made, <<kind, path>>
    fetched,     \* history, per call: fetchMemosWithResource was called
    saved,       \* history, per call: this.saveData was called
    failedOps,   \* history, per call: what failed in it, <<kind, path>>
    failedAtSave,\* history, per call: failedOps when saveData was called
    before,      \* history, per call: files when sync() was called
    faults,      \* number of injected failures so far
    edits,       \* number of settings edits so far
    tabNotices   \* the Notice messages shown by the settings tab

vars == <<persisted, settings, now, remote, files, dirs, pending, pc, locals,
          res, notices, calls, fetched, saved, failedOps, failedAtSave,
          before, faults, edits, tabNotices>>

----------------------------------------------------------------------------
\* Bounds of the model.

MaxRuns == 2
MaxFaults == 1
MaxEdits == 1

RunIds == 1..MaxRuns

----------------------------------------------------------------------------
\* Values.

NoTime == 0
MsPerSecond == 1000
ClockStep == MsPerSecond \div 2
StartTime == 2 * MsPerSecond
EndTime == StartTime + ClockStep

Absent == "<absent>"
NoKeyMessage == "Please enter your OpenAPI key."

FolderMessage == "Please enter the folder name."
StartMessage == "Start syncing memos."
SuccessMessage == "Sync memos successfully."
FailedMessage == "Failed to sync memos. Please check your OpenAPI key and network."

DEFAULT_SETTINGS ==
    [openAPI |-> "", folderToSync |-> "Memos Sync", debug |-> FALSE,
     lastSyncTime |-> NoTime]

Keys == {"", "key"}
Folders == {"Memos Sync", "Notes"}
FolderInputs == Folders \cup {""}

MemoIds == {"1", "2"}
MemoContents == {"a", "b"}
UpdatedTs == {1, 2}
Filenames == {"x.png"}
ResourceContents == {"p"}

\* What a file of the vault holds before the first sync of a behaviour: contents
\* are only copied and compared, so one value of each kind stands for "equal to
\* the remote content" (remote memo "b") and "different" (remote "a", "p").
LocalMemoContent == "b"
LocalResourceContent == "q"

\* `${memo.id}.md`
MdName(id) == CASE id = "1" -> "1.md" [] id = "2" -> "2.md"

MemoFileNames == {MdName(id) : id \in MemoIds}

\* `${folderToSync}/memos`, `${folderToSync}/resources`
MemosFolder(folderToSync) == <<folderToSync, "memos">>
ResourcesFolder(folderToSync) == <<folderToSync, "resources">>

\* `${folderToSync}/memos/${memo.id}.md`
MemoPath(folderToSync, memo) == <<folderToSync, "memos", MdName(memo.id)>>

\* `${folderToSync}/resources/${resource.filename}`
ResourcePath(folderToSync, resource) ==
    <<folderToSync, "resources", resource.filename>>

Paths ==
    {<<f, "memos", n>> : f \in Folders, n \in MemoFileNames}
    \cup {<<f, "resources", n>> : f \in Folders, n \in Filenames}

FolderOf(path) == <<path[1], path[2]>>

Memos == [id : MemoIds, content : MemoContents, updatedTs : UpdatedTs]
Resources == [filename : Filenames, content : ResourceContents]

Range(s) == {s[i] : i \in DOMAIN s}

MemoOrder == <<"1", "2">>
FilenameOrder == <<"x.png">>
Rank(order, x) == CHOOSE k \in DOMAIN order : order[k] = x

\* The snapshots: memo ids and resource filenames are unique in a snapshot
\* (the lists are taken in one order of the ids: no step depends on the order).
MemoLists ==
    {m \in UNION {[1..n -> Memos] : n \in 0..Cardinality(MemoIds)} :
        \A i, j \in DOMAIN m : i < j => Rank(MemoOrder, m[i].id) < Rank(MemoOrder, m[j].id)}
ResourceLists ==
    {s \in UNION {[1..n -> Resources] : n \in 0..Cardinality(Filenames)} :
        \A i, j \in DOMAIN s : i < j => Rank(FilenameOrder, s[i].filename) < Rank(FilenameOrder, s[j].filename)}
Snapshots == [memos : MemoLists, resources : ResourceLists]
NoSnapshot == [memos |-> <<>>, resources |-> <<>>]

----------------------------------------------------------------------------
\* The pure parts of sync().

\* Mutant: the comparison is turned round.
SkipMemoNewer(lastSyncTime, memo) ==
    /\ lastSyncTime # NoTime
    /\ memo.updatedTs * MsPerSecond > lastSyncTime

\* Mutant: a memo updated exactly at the cutoff is skipped as well.
SkipMemoAtCutoff(lastSyncTime, memo) ==
    /\ lastSyncTime # NoTime
    /\ memo.updatedTs * MsPerSecond <= lastSyncTime

\* if (lastSyncTime && lastUpdated * 1000 < lastSyncTime) ... return
SkipMemo(lastSyncTime, memo) ==
    /\ lastSyncTime # NoTime
    /\ memo.updatedTs * MsPerSecond < lastSyncTime

\* Mutant: the expected memo paths are derived from the resources.
MemosInAPIFromResources(folderToSync, snapshot) ==
    {ResourcePath(folderToSync, x) : x \in Range(snapshot.resources)}

\* res.memos.map((memo) => `${folderToSync}/memos/${memo.id}.md`)
MemosInAPI(folderToSync, snapshot) ==
    {MemoPath(folderToSync, m) : m \in Range(snapshot.memos)}

\* Mutant: the expected resource paths are derived from the memos.
ResourcesInAPIFromMemos(folderToSync, snapshot) ==
    {MemoPath(folderToSync, m) : m \in Range(snapshot.memos)}

\* res.resources.map((resource) => `${folderToSync}/resources/${resource.filename}`)
ResourcesInAPI(folderToSync, snapshot) ==
    {ResourcePath(folderToSync, x) : x \in Range(snapshot.resources)}

\* (await adapter.list(folder)).files
ListFiles(folder) == {p \in Paths : FolderOf(p) = folder /\ files[p] # Absent}

\* The adapter.write calls of res.memos.forEach: one per memo that is not skipped.
MemoWrites(r, snapshot) ==
    {[run |-> r, kind |-> "write", path |-> MemoPath(locals[r].folderToSync, m),
      content |-> m.content] :
        m \in {x \in Range(snapshot.memos) : ~SkipMemo(locals[r].lastSyncTime, x)}}

\* The adapter.exists calls of res.resources.forEach(async ...): one per resource.
ResourceChecks(r, snapshot) ==
    {[run |-> r, kind |-> "exists", path |-> ResourcePath(locals[r].folderToSync, x),
      content |-> x.content] : x \in Range(snapshot.resources)}

\* Mutant: the files that are in the API response are the ones removed.
RemovalsOfExpected(r, listing, inAPI) ==
    {[run |-> r, kind |-> "remove", path |-> p, content |-> Absent] :
        p \in {q \in listing : q \in inAPI}}

\* Mutant: every listed file is removed.
RemovalsOfAll(r, listing, inAPI) ==
    {[run |-> r, kind |-> "remove", path |-> p, content |-> Absent] :
        p \in listing}

\* The adapter.remove calls of one pruning pass over a listing.
Removals(r, listing, inAPI) ==
    {[run |-> r, kind |-> "remove", path |-> p, content |-> Absent] :
        p \in {q \in listing : q \notin inAPI}}

CallsOf(ops) == {<<op.kind, op.path>> : op \in ops}

Log(r, message) == notices' = [notices EXCEPT ![r] = Append(@, message)]

Called(r, cs) == calls' = [calls EXCEPT ![r] = @ \cup cs]

Failed(r, kind, target) ==
    failedOps' = [failedOps EXCEPT ![r] = @ \cup {<<kind, target>>}]

----------------------------------------------------------------------------
\* The initial states: the plugin is loaded (onload has run loadSettings), no
\* sync() call is in progress, the vault holds any files under the default folder.

\* The vault before the first sync: the files `present`, all under the default folder.
DefaultPaths == {p \in Paths : p[1] = DEFAULT_SETTINGS.folderToSync}
LocalFiles(present) ==
    [p \in Paths |->
        IF p \notin present THEN Absent
        ELSE IF p[2] = "memos" THEN LocalMemoContent ELSE LocalResourceContent]

TypeOK ==
    /\ persisted \in [openAPI : Keys, folderToSync : Folders, debug : BOOLEAN,
                      lastSyncTime : Nat]
    /\ files \in [Paths -> MemoContents \cup ResourceContents
                          \cup {LocalMemoContent, LocalResourceContent, Absent}]
    /\ dirs \subseteq {FolderOf(p) : p \in Paths}
    /\ remote \in Snapshots

Init ==
    /\ persisted \in [openAPI : Keys, folderToSync : {DEFAULT_SETTINGS.folderToSync},
                      debug : {FALSE},
                      lastSyncTime : {NoTime, StartTime}]
    /\ settings = persisted
    /\ now = StartTime
    /\ remote \in Snapshots
    /\ files \in {LocalFiles(present) : present \in SUBSET DefaultPaths}
    /\ dirs \in SUBSET {MemosFolder(DEFAULT_SETTINGS.folderToSync),
                        ResourcesFolder(DEFAULT_SETTINGS.folderToSync)}
    /\ \A p \in Paths : files[p] # Absent => FolderOf(p) \in dirs
    /\ pending = {}
    /\ pc = [r \in RunIds |-> "idle"]
    /\ locals = [r \in RunIds |-> DEFAULT_SETTINGS]
    /\ res = [r \in RunIds |-> NoSnapshot]
    /\ notices = [r \in RunIds |-> <<>>]
    /\ calls = [r \in RunIds |-> {}]
    /\ fetched = [r \in RunIds |-> FALSE]
    /\ saved = [r \in RunIds |-> FALSE]
    /\ failedOps = [r \in RunIds |-> {}]
    /\ failedAtSave = [r \in RunIds |-> {}]
    /\ before = [r \in RunIds |-> files]
    /\ faults = 0
    /\ edits = 0
    /\ tabNotices = {}

----------------------------------------------------------------------------
\* sync(), lines 47-147.

InProgress(r) == pc[r] \notin {"idle", "nokey", "failed", "success"}

\* The ribbon icon's callback, this.sync.bind(this): sync() is entered and
\* suspends at `await this.loadSettings()`.
SyncRequest(r) ==
    /\ pc[r] = "idle"
    /\ \A q \in RunIds : q < r => pc[q] # "idle"
    /\ pc' = [pc EXCEPT ![r] = "loading"]
    /\ before' = [before EXCEPT ![r] = files]
    /\ UNCHANGED <<persisted, settings, now, remote, files, dirs, pending, locals,
                   res, notices, calls, fetched, saved, failedOps, failedAtSave,
                   faults, edits,
                   tabNotices>>

\* Object.assign({}, DEFAULT_SETTINGS, await this.loadData())
LoadedSettings == persisted

\* Mutant: the credential is not checked.
MissingKeyNever(openAPI) == FALSE

\* if (openAPI === "")
MissingKey(openAPI) == openAPI = ""

\* loadSettings() resolves; the credential is checked; the fetch is started.
LoadSettingsDone(r) ==
    /\ pc[r] = "loading"
    /\ settings' = LoadedSettings
    /\ locals' = [locals EXCEPT ![r] = LoadedSettings]
    /\ IF MissingKey(LoadedSettings.openAPI)
          THEN /\ Log(r, NoKeyMessage)
               /\ pc' = [pc EXCEPT ![r] = "nokey"]
               /\ UNCHANGED fetched
          ELSE /\ Log(r, StartMessage)
               /\ fetched' = [fetched EXCEPT ![r] = TRUE]
               /\ pc' = [pc EXCEPT ![r] = "fetching"]
    /\ UNCHANGED <<persisted, now, remote, files, dirs, pending, res, calls, saved,
                   failedOps, failedAtSave, before, faults, edits,
                   tabNotices>>

\* catch (e) { this.log("Failed to sync memos. ...", 0) }
Catch(r, kind, target) ==
    /\ Log(r, FailedMessage)
    /\ Failed(r, kind, target)
    /\ pc' = [pc EXCEPT ![r] = "failed"]

\* An injected failure of the fetcher or of the store.
Fault ==
    /\ faults < MaxFaults
    /\ faults' = faults + 1

\* fetchMemosWithResource resolves; adapter.exists(`${folderToSync}/memos`) is called.
FetchDone(r) ==
    /\ pc[r] = "fetching"
    /\ res' = [res EXCEPT ![r] = remote]
    /\ Called(r, {<<"exists", MemosFolder(locals[r].folderToSync)>>})
    /\ pc' = [pc EXCEPT ![r] = "existsMemos"]
    /\ UNCHANGED <<persisted, settings, now, remote, files, dirs, pending, locals,
                   notices, fetched, saved, failedOps, failedAtSave, before,
                   faults, edits,
                   tabNotices>>

\* Mutant: the rejection is swallowed and the run goes on with an empty snapshot.
FetchFailSwallowed(r) ==
    /\ pc[r] = "fetching"
    /\ Fault
    /\ Failed(r, "fetch", <<>>)
    /\ res' = [res EXCEPT ![r] = NoSnapshot]
    /\ Called(r, {<<"exists", MemosFolder(locals[r].folderToSync)>>})
    /\ pc' = [pc EXCEPT ![r] = "existsMemos"]
    /\ UNCHANGED <<persisted, settings, now, remote, files, dirs, pending, locals,
                   notices, fetched, saved, failedAtSave, before, edits,
                   tabNotices>>

\* fetchMemosWithResource rejects.
FetchFail(r) ==
    /\ pc[r] = "fetching"
    /\ Fault
    /\ Catch(r, "fetch", <<>>)
    /\ UNCHANGED <<persisted, settings, now, remote, files, dirs, pending, locals,
                   res, calls, fetched, saved, failedAtSave, before, edits,
                   tabNotices>>

\* The synchronous segment of lines 80-118, entered once both folders are there:
\* the memo writes are issued, every resource callback runs up to its
\* `await adapter.exists`, and adapter.list(`${folderToSync}/memos`) is called.
Reconcile(r) ==
    LET issued == MemoWrites(r, res[r]) \cup ResourceChecks(r, res[r])
    IN  /\ pending' = pending \cup issued
        /\ Called(r, CallsOf(issued)
                       \cup {<<"list", MemosFolder(locals[r].folderToSync)>>})
        /\ pc' = [pc EXCEPT ![r] = "listMemos"]

\* Mutant: the folder is created without looking at the result of exists.
ExistsMemosDoneUnchecked(r) ==
    /\ pc[r] = "existsMemos"
    /\ Called(r, {<<"createFolder", MemosFolder(locals[r].folderToSync)>>})
    /\ pc' = [pc EXCEPT ![r] = "createMemos"]
    /\ UNCHANGED <<persisted, settings, now, remote, files, dirs, pending, locals,
                   res, notices, fetched, saved, failedOps, failedAtSave, before,
                   faults, edits, tabNotices>>

\* adapter.exists(`${folderToSync}/memos`) resolves.
ExistsMemosDone(r) ==
    /\ pc[r] = "existsMemos"
    /\ IF MemosFolder(locals[r].folderToSync) \in dirs
          THEN /\ Called(r, {<<"exists", ResourcesFolder(locals[r].folderToSync)>>})
               /\ pc' = [pc EXCEPT ![r] = "existsResources"]
          ELSE /\ Called(r, {<<"createFolder", MemosFolder(locals[r].folderToSync)>>})
               /\ pc' = [pc EXCEPT ![r] = "createMemos"]
    /\ UNCHANGED <<persisted, settings, now, remote, files, dirs, pending, locals,
                   res, notices, fetched, saved, failedOps, failedAtSave, before,
                   faults, edits,
                   tabNotices>>

\* vault.createFolder(`${folderToSync}/memos`) resolves.
CreateMemosDone(r) ==
    /\ pc[r] = "createMemos"
    /\ MemosFolder(locals[r].folderToSync) \notin dirs
    /\ dirs' = dirs \cup {MemosFolder(locals[r].folderToSync)}
    /\ Called(r, {<<"exists", ResourcesFolder(locals[r].folderToSync)>>})
    /\ pc' = [pc EXCEPT ![r] = "existsResources"]
    /\ UNCHANGED <<persisted, settings, now, remote, files, pending, locals, res,
                   notices, fetched, saved, failedOps, failedAtSave, before,
                   faults, edits,
                   tabNotices>>

\* vault.createFolder rejects: a store fault, or the folder is there by now.
CreateMemosFail(r) ==
    /\ pc[r] = "createMemos"
    /\ \/ MemosFolder(locals[r].folderToSync) \in dirs /\ UNCHANGED faults
       \/ Fault
    /\ Catch(r, "createFolder", MemosFolder(locals[r].folderToSync))
    /\ UNCHANGED <<persisted, settings, now, remote, files, dirs, pending, locals,
                   res, calls, fetched, saved, failedAtSave, before, edits,
                   tabNotices>>

\* adapter.exists(`${folderToSync}/resources`) resolves.
ExistsResourcesDone(r) ==
    /\ pc[r] = "existsResources"
    /\ IF ResourcesFolder(locals[r].folderToSync) \in dirs
          THEN Reconcile(r)
          ELSE /\ Called(r, {<<"createFolder",
                               ResourcesFolder(locals[r].folderToSync)>>})
               /\ pc' = [pc EXCEPT ![r] = "createResources"]
               /\ UNCHANGED pending
    /\ UNCHANGED <<persisted, settings, now, remote, files, dirs, locals, res,
                   notices, fetched, saved, failedOps, failedAtSave, before,
                   faults, edits,
                   tabNotices>>

\* vault.createFolder(`${folderToSync}/resources`) resolves.
CreateResourcesDone(r) ==
    /\ pc[r] = "createResources"
    /\ ResourcesFolder(locals[r].folderToSync) \notin dirs
    /\ dirs' = dirs \cup {ResourcesFolder(locals[r].folderToSync)}
    /\ Reconcile(r)
    /\ UNCHANGED <<persisted, settings, now, remote, files, locals, res, notices,
                   fetched, saved, failedOps, failedAtSave, before, faults, edits,
                   tabNotices>>

CreateResourcesFail(r) ==
    /\ pc[r] = "createResources"
    /\ \/ ResourcesFolder(locals[r].folderToSync) \in dirs /\ UNCHANGED faults
       \/ Fault
    /\ Catch(r, "createFolder", ResourcesFolder(locals[r].folderToSync))
    /\ UNCHANGED <<persisted, settings, now, remote, files, dirs, pending, locals,
                   res, calls, fetched, saved, failedAtSave, before, edits,
                   tabNotices>>

\* adapter.list(`${folderToSync}/memos`) resolves: a remove is issued for every
\* listed file that is not in memosInAPI, and the resources folder is listed.
ListMemosDone(r) ==
    /\ pc[r] = "listMemos"
    /\ LET issued == Removals(r, ListFiles(MemosFolder(locals[r].folderToSync)),
                              MemosInAPI(locals[r].folderToSync, res[r]))
       IN  /\ pending' = pending \cup issued
           /\ Called(r, CallsOf(issued)
                          \cup {<<"list", ResourcesFolder(locals[r].folderToSync)>>})
    /\ pc' = [pc EXCEPT ![r] = "listResources"]
    /\ UNCHANGED <<persisted, settings, now, remote, files, dirs, locals, res,
                   notices, fetched, saved, failedOps, failedAtSave, before,
                   faults, edits,
                   tabNotices>>

\* Mutant: the checkpoint is saved on the failure path as well.
ListMemosFailSaved(r) ==
    /\ pc[r] = "listMemos"
    /\ Fault
    /\ Catch(r, "list", MemosFolder(locals[r].folderToSync))
    /\ persisted' = [settings EXCEPT !.lastSyncTime = now]
    /\ saved' = [saved EXCEPT ![r] = TRUE]
    /\ UNCHANGED <<settings, now, remote, files, dirs, pending, locals,
                   res, calls, fetched, failedAtSave, before, edits,
                   tabNotices>>

\* adapter.list(`${folderToSync}/memos`) rejects.
ListMemosFail(r) ==
    /\ pc[r] = "listMemos"
    /\ Fault
    /\ Catch(r, "list", MemosFolder(locals[r].folderToSync))
    /\ UNCHANGED <<persisted, settings, now, remote, files, dirs, pending, locals,
                   res, calls, fetched, saved, failedAtSave, before, edits,
                   tabNotices>>

\* Date.now(): the clock has not gone back since it was last read.
ClockReadings ==
    {t \in {now, now + ClockStep} : t <= EndTime}

\* Mutant: only the time is saved, so the next load falls back on the defaults.
CheckpointOfDefaults(t) == [DEFAULT_SETTINGS EXCEPT !.lastSyncTime = t]

\* this.saveData({ ...this.settings, lastSyncTime: Date.now() })
Checkpoint(t) == [settings EXCEPT !.lastSyncTime = t]

\* adapter.list(`${folderToSync}/resources`) resolves: the resource removals are
\* issued, success is reported and the checkpoint is saved (lines 126-139).
ListResourcesDone(r) ==
    /\ pc[r] = "listResources"
    /\ LET issued == Removals(r, ListFiles(ResourcesFolder(locals[r].folderToSync)),
                              ResourcesInAPI(locals[r].folderToSync, res[r]))
       IN  /\ pending' = pending \cup issued
           /\ Called(r, CallsOf(issued))
    /\ Log(r, SuccessMessage)
    /\ \E t \in ClockReadings :
          /\ now' = t
          /\ persisted' = Checkpoint(t)
    /\ saved' = [saved EXCEPT ![r] = TRUE]
    /\ failedAtSave' = [failedAtSave EXCEPT ![r] = failedOps[r]]
    /\ pc' = [pc EXCEPT ![r] = "success"]
    /\ UNCHANGED <<settings, remote, files, dirs, locals, res, fetched, failedOps,
                   before, faults, edits,
                   tabNotices>>

ListResourcesFail(r) ==
    /\ pc[r] = "listResources"
    /\ Fault
    /\ Catch(r, "list", ResourcesFolder(locals[r].folderToSync))
    /\ UNCHANGED <<persisted, settings, now, remote, files, dirs, pending, locals,
                   res, calls, fetched, saved, failedAtSave, before, edits,
                   tabNotices>>

----------------------------------------------------------------------------
\* The store operations in flight settle, in any order.

Settle(op) == pending' = pending \ {op}

\* adapter.write(memoPath, memoContent) resolves (line 93, not awaited).
WriteDone(op) ==
    /\ op \in pending
    /\ op.kind = "write"
    /\ files' = [files EXCEPT ![op.path] = op.content]
    /\ Settle(op)
    /\ UNCHANGED <<persisted, settings, now, remote, dirs, pc, locals, res,
                   notices, calls, fetched, saved, failedOps, failedAtSave,
                   before, faults, edits,
                   tabNotices>>

\* Mutant: the write is awaited inside the try block, so its rejection is caught.
WriteFailCaught(op) ==
    /\ op \in pending
    /\ op.kind = "write"
    /\ Fault
    /\ IF InProgress(op.run)
          THEN Catch(op.run, "write", op.path)
          ELSE Failed(op.run, "write", op.path) /\ UNCHANGED <<notices, pc>>
    /\ Settle(op)
    /\ UNCHANGED <<persisted, settings, now, remote, files, dirs, locals, res,
                   calls, fetched, saved, failedAtSave, before, edits,
                   tabNotices>>

\* adapter.write rejects: nobody handles the rejection.
WriteFail(op) ==
    /\ op \in pending
    /\ op.kind = "write"
    /\ Fault
    /\ Failed(op.run, "write", op.path)
    /\ Settle(op)
    /\ UNCHANGED <<persisted, settings, now, remote, files, dirs, pc, locals, res,
                   notices, calls, fetched, saved, failedAtSave, before, edits,
                   tabNotices>>

\* Mutant: the resource is written whether or not its file exists.
ResourceExistsIgnored(op) ==
    /\ op \in pending
    /\ op.kind = "exists"
    /\ pending' = (pending \ {op}) \cup {[op EXCEPT !.kind = "writeBinary"]}
    /\ Called(op.run, {<<"writeBinary", op.path>>})
    /\ UNCHANGED <<persisted, settings, now, remote, files, dirs, pc, locals, res,
                   notices, fetched, saved, failedOps, failedAtSave, before,
                   faults, edits,
                   tabNotices>>

\* `await adapter.exists(resourcePath)` resolves in a resource callback (lines
\* 100-107): the callback returns, or calls adapter.writeBinary without awaiting.
ResourceExistsDone(op) ==
    /\ op \in pending
    /\ op.kind = "exists"
    /\ IF files[op.path] # Absent
          THEN /\ Settle(op)
               /\ UNCHANGED calls
          ELSE /\ pending' = (pending \ {op}) \cup {[op EXCEPT !.kind = "writeBinary"]}
               /\ Called(op.run, {<<"writeBinary", op.path>>})
    /\ UNCHANGED <<persisted, settings, now, remote, files, dirs, pc, locals, res,
                   notices, fetched, saved, failedOps, failedAtSave, before,
                   faults, edits,
                   tabNotices>>

\* adapter.writeBinary(resourcePath, resourceContent) resolves.
WriteBinaryDone(op) ==
    /\ op \in pending
    /\ op.kind = "writeBinary"
    /\ files' = [files EXCEPT ![op.path] = op.content]
    /\ Settle(op)
    /\ UNCHANGED <<persisted, settings, now, remote, dirs, pc, locals, res,
                   notices, calls, fetched, saved, failedOps, failedAtSave,
                   before, faults, edits,
                   tabNotices>>

WriteBinaryFail(op) ==
    /\ op \in pending
    /\ op.kind = "writeBinary"
    /\ Fault
    /\ Failed(op.run, "writeBinary", op.path)
    /\ Settle(op)
    /\ UNCHANGED <<persisted, settings, now, remote, files, dirs, pc, locals, res,
                   notices, calls, fetched, saved, failedAtSave, before, edits,
                   tabNotices>>

\* `await adapter.remove(path)` resolves in a pruning callback (lines 121, 129).
RemoveDone(op) ==
    /\ op \in pending
    /\ op.kind = "remove"
    /\ files[op.path] # Absent
    /\ files' = [files EXCEPT ![op.path] = Absent]
    /\ Settle(op)
    /\ UNCHANGED <<persisted, settings, now, remote, dirs, pc, locals, res,
                   notices, calls, fetched, saved, failedOps, failedAtSave,
                   before, faults, edits,
                   tabNotices>>

\* adapter.remove rejects: a store fault, or the file is gone by now.
RemoveFail(op) ==
    /\ op \in pending
    /\ op.kind = "remove"
    /\ \/ files[op.path] = Absent /\ UNCHANGED faults
       \/ Fault
    /\ Failed(op.run, "remove", op.path)
    /\ Settle(op)
    /\ UNCHANGED <<persisted, settings, now, remote, files, dirs, pc, locals, res,
                   notices, calls, fetched, saved, failedAtSave, before, edits,
                   tabNotices>>

----------------------------------------------------------------------------
\* MemosSyncSettingTab.display(), lines 158-205: the onChange callbacks.

Edit ==
    /\ edits < MaxEdits
    /\ edits' = edits + 1

\* await this.plugin.saveSettings()
SaveSettings == persisted' = settings'

\* OpenAPI text field, lines 172-176.
SetOpenAPI(value) ==
    /\ Edit
    /\ settings' = [settings EXCEPT !.openAPI = value]
    /\ SaveSettings
    /\ UNCHANGED <<now, remote, files, dirs, pending, pc, locals, res, notices,
                   calls, fetched, saved, failedOps, failedAtSave, before, faults,
                   tabNotices>>

\* Mutant: the folder name is stored without the test for the empty string.
SetFolderToSyncUnchecked(value) ==
    /\ Edit
    /\ settings' = [settings EXCEPT !.folderToSync = value]
    /\ SaveSettings
    /\ UNCHANGED <<now, remote, files, dirs, pending, pc, locals, res, notices,
                   calls, fetched, saved, failedOps, failedAtSave, before, faults,
                   tabNotices>>

\* Folder text field, lines 186-193: an empty value is refused.
SetFolderToSync(value) ==
    /\ Edit
    /\ IF value = ""
          THEN /\ tabNotices' = tabNotices \cup {FolderMessage}
               /\ UNCHANGED <<settings, persisted>>
          ELSE /\ settings' = [settings EXCEPT !.folderToSync = value]
               /\ SaveSettings
               /\ UNCHANGED tabNotices
    /\ UNCHANGED <<now, remote, files, dirs, pending, pc, locals, res, notices,
                   calls, fetched, saved, failedOps, failedAtSave, before, faults>>

\* Debug toggle, lines 200-203.
SetDebug(value) ==
    /\ Edit
    /\ settings' = [settings EXCEPT !.debug = value]
    /\ SaveSettings
    /\ UNCHANGED <<now, remote, files, dirs, pending, pc, locals, res, notices,
                   calls, fetched, saved, failedOps, failedAtSave, before, faults,
                   tabNotices>>

----------------------------------------------------------------------------
\* Spec: sync is requested when no earlier call is in progress and the store
\* operations of the earlier calls have settled (one logical run at a time).

Quiescent == pending = {} /\ \A r \in RunIds : ~InProgress(r)

RunStep(r) ==
    \/ LoadSettingsDone(r)
    \/ FetchDone(r)
    \/ FetchFail(r)
    \/ ExistsMemosDone(r)
    \/ CreateMemosDone(r)
    \/ CreateMemosFail(r)
    \/ ExistsResourcesDone(r)
    \/ CreateResourcesDone(r)
    \/ CreateResourcesFail(r)
    \/ ListMemosDone(r)
    \/ ListMemosFail(r)
    \/ ListResourcesDone(r)
    \/ ListResourcesFail(r)

StoreStep ==
    \/ \E op \in pending : WriteDone(op)
    \/ \E op \in pending : WriteFail(op)
    \/ \E op \in pending : ResourceExistsDone(op)
    \/ \E op \in pending : WriteBinaryDone(op)
    \/ \E op \in pending : WriteBinaryFail(op)
    \/ \E op \in pending : RemoveDone(op)
    \/ \E op \in pending : RemoveFail(op)

Next ==
    \/ \E r \in RunIds : Quiescent /\ SyncRequest(r)
    \/ \E r \in RunIds : RunStep(r)
    \/ StoreStep

Spec == Init /\ [][Next]_vars

\* SpecRace: the ribbon icon is clicked whenever the user likes; nothing in
\* onload (lines 20-25) or sync (lines 47-59) keeps a second call from starting.
\* The credential is set, there is no earlier checkpoint and the snapshot holds
\* at most one memo.
InitRace ==
    /\ Init
    /\ persisted.openAPI # ""
    /\ persisted.lastSyncTime = NoTime
    /\ Len(remote.memos) <= 1
    /\ \A i \in DOMAIN remote.memos : remote.memos[i].id = MemoOrder[1]

NextRace ==
    \/ \E r \in RunIds : SyncRequest(r)
    \/ \E r \in RunIds : RunStep(r)
    \/ StoreStep

SpecRace == InitRace /\ [][NextRace]_vars

\* SpecSettings: one run at a time as in Spec, with the settings tab edited at
\* any moment, also while a run is in progress.  The snapshot holds at most one
\* memo (its content differs from the local files'), the credential is set,
\* there is no earlier checkpoint, and the vault is either new (no sync folder
\* yet) or holds every file of the default sync folder.
InitSettings ==
    /\ Init
    /\ persisted.openAPI # ""
    /\ persisted.lastSyncTime = NoTime
    /\ Len(remote.memos) <= 1
    /\ \A i \in DOMAIN remote.memos :
           /\ remote.memos[i].id = MemoOrder[1]
           /\ remote.memos[i].content # LocalMemoContent
    /\ dirs = {} \/ files = LocalFiles(DefaultPaths)

SettingsStep ==
    \/ \E value \in Keys : SetOpenAPI(value)
    \/ \E value \in FolderInputs : SetFolderToSync(value)
    \/ \E value \in BOOLEAN : SetDebug(value)

NextSettings ==
    \/ Next
    \/ SettingsStep

SpecSettings == InitSettings /\ [][NextSettings]_vars

----------------------------------------------------------------------------
\* What the claims speak of.

Finished(r) == pc[r] \in {"nokey", "failed", "success"}

\* The store operations of call r that are still in flight.
InFlight(r) == {op \in pending : op.run = r}

\* Call r has returned and every store operation it issued has settled.
Settled(r) == Finished(r) /\ InFlight(r) = {}

\* No sync() was called after call r.
Latest(r) == \A q \in RunIds : q > r => pc[q] = "idle"

\* The state right after run r: it is settled and nothing has run since.
AfterRun(r) == Settled(r) /\ Latest(r)

FailedKinds(r) == {f[1] : f \in failedOps[r]}

\* The memo is older than the cutoff T (T = NoTime: there is no cutoff).
OlderThan(T, memo) == T # NoTime /\ memo.updatedTs * 1000 < T

MemosOf(r) == Range(res[r].memos)
ResourcesOf(r) == Range(res[r].resources)
PathOfMemo(r, memo) == <<locals[r].folderToSync, "memos", MdName(memo.id)>>
PathOfResource(r, x) == <<locals[r].folderToSync, "resources", x.filename>>
MemoFilesOf(r) ==
    {p \in Paths : p[1] = locals[r].folderToSync /\ p[2] = "memos"
                   /\ files[p] # Absent}
ResourceFilesOf(r) ==
    {p \in Paths : p[1] = locals[r].folderToSync /\ p[2] = "resources"
                   /\ files[p] # Absent}

----------------------------------------------------------------------------
\* C1 (as stated): after a successful run over snapshot S has settled, with no
\* store operation of it failed, the memos folder holds exactly <id>.md with S's
\* content for every memo id of S, and the resources folder exactly one file per
\* resource filename of S, whatever the local state and lastSyncTime were.
C1_Convergence ==
    \A r \in RunIds :
        (AfterRun(r) /\ pc[r] = "success" /\ failedOps[r] = {}) =>
            /\ MemoFilesOf(r) = {PathOfMemo(r, m) : m \in MemosOf(r)}
            /\ \A m \in MemosOf(r) : files[PathOfMemo(r, m)] = m.content
            /\ ResourceFilesOf(r) = {PathOfResource(r, x) : x \in ResourcesOf(r)}

\* C1 (amended): after a successful run over S has settled with no store
\* operation of it failed, the memos folder holds no file but <id>.md for ids of
\* S; every memo of S that is not older than the cutoff has its file with S's
\* content; the file of a memo older than the cutoff is there only if it was
\* there before the run; the resources folder holds exactly one file per
\* resource filename of S.
C1_ConvergenceUpToCutoff ==
    \A r \in RunIds :
        (AfterRun(r) /\ pc[r] = "success" /\ failedOps[r] = {}) =>
            /\ MemoFilesOf(r) =
                  {PathOfMemo(r, m) : m \in
                      {x \in MemosOf(r) :
                          \/ ~OlderThan(locals[r].lastSyncTime, x)
                          \/ before[r][PathOfMemo(r, x)] # Absent}}
            /\ \A m \in MemosOf(r) :
                  ~OlderThan(locals[r].lastSyncTime, m) =>
                      files[PathOfMemo(r, m)] = m.content
            /\ ResourceFilesOf(r) = {PathOfResource(r, x) : x \in ResourcesOf(r)}

\* A run has settled in which a memo was written over a different file, another
\* memo was skipped by the cutoff and an orphan was removed.
C1_Witness ==
    \E r \in RunIds :
        /\ AfterRun(r) /\ pc[r] = "success" /\ failedOps[r] = {}
        /\ \E m \in MemosOf(r) :
              /\ ~OlderThan(locals[r].lastSyncTime, m)
              /\ before[r][PathOfMemo(r, m)] \notin {Absent, m.content}
        /\ \E m \in MemosOf(r) : OlderThan(locals[r].lastSyncTime, m)
        /\ \E c \in calls[r] : c[1] = "remove"

----------------------------------------------------------------------------
\* C2: a run whose fetch failed ends failed having made no store call (no
\* exists, createFolder, write, writeBinary, list or remove) and no saveData
\* call; the files are those of before the run and the persisted lastSyncTime
\* is the one the run loaded.
C2_FailFastOnFetchError ==
    \A r \in RunIds :
        "fetch" \in FailedKinds(r) =>
            /\ pc[r] = "failed"
            /\ calls[r] = {}
            /\ InFlight(r) = {}
            /\ ~saved[r]
            /\ Latest(r) =>
                  /\ files = before[r]
                  /\ persisted.lastSyncTime = locals[r].lastSyncTime

\* A fetch failed although the snapshot held a memo to write and the vault an
\* orphan to remove.
C2_Witness ==
    \E r \in RunIds :
        /\ "fetch" \in FailedKinds(r)
        /\ remote.memos # <<>>
        /\ \E p \in Paths :
              /\ files[p] # Absent
              /\ p \notin MemosInAPI(locals[r].folderToSync, remote)
              /\ p \notin ResourcesInAPI(locals[r].folderToSync, remote)

----------------------------------------------------------------------------
\* C3: in a run that loaded lastSyncTime T, no write is issued for a memo with
\* updatedAt * 1000 < T, and the memo's file (or its absence) stays what it was
\* when the run started.
C3_SkipCorrectness ==
    \A r \in RunIds :
        \A m \in MemosOf(r) :
            OlderThan(locals[r].lastSyncTime, m) =>
                /\ <<"write", PathOfMemo(r, m)>> \notin calls[r]
                /\ \A op \in InFlight(r) : op.path # PathOfMemo(r, m)
                /\ Latest(r) => files[PathOfMemo(r, m)] = before[r][PathOfMemo(r, m)]

\* A run has settled that skipped a memo whose stale file differs from the remote
\* content, and that wrote another memo.
C3_Witness ==
    \E r \in RunIds :
        /\ AfterRun(r) /\ pc[r] = "success"
        /\ \E m \in MemosOf(r) :
              /\ OlderThan(locals[r].lastSyncTime, m)
              /\ files[PathOfMemo(r, m)] \notin {Absent, m.content}
        /\ \E c \in calls[r] : c[1] = "write"

----------------------------------------------------------------------------
\* C4: a run issues no writeBinary to the path of a resource file that existed
\* when it started, and such a file of the snapshot keeps its content; and no
\* step issues a writeBinary to a path at which a file exists.
C4_NeverWritten ==
    \A r \in RunIds :
        \A p \in Paths :
            (p[2] = "resources" /\ p[1] = locals[r].folderToSync
             /\ pc[r] # "idle" /\ before[r][p] # Absent) =>
                /\ <<"writeBinary", p>> \notin calls[r]
                /\ (Latest(r) /\ p \in {PathOfResource(r, x) : x \in ResourcesOf(r)})
                      => files[p] = before[r][p]

C4_IssuedOnAbsent ==
    \A op \in pending' \ pending :
        op.kind = "writeBinary" => files[op.path] = Absent

\* C4: both parts, in every state and at every step.
C4_ResourceWriteOnce == [](C4_NeverWritten) /\ [][C4_IssuedOnAbsent]_vars

\* A run has settled over a snapshot holding, for a file that was there, a
\* different content.
C4_Witness ==
    \E r \in RunIds :
        /\ AfterRun(r) /\ pc[r] = "success"
        /\ \E x \in ResourcesOf(r) :
              /\ before[r][PathOfResource(r, x)] \notin {Absent, x.content}
              /\ files[PathOfResource(r, x)] = before[r][PathOfResource(r, x)]

----------------------------------------------------------------------------
\* C5: a run issues no removal for a path derived from its snapshot, at any
\* point of any interleaving; and after a successful run has settled with every
\* removal of it succeeded, every file that was in the memos (resources) folder
\* and whose path is not derived from the snapshot is absent.
C5_OrphanPruning ==
    \A r \in RunIds :
        LET derived == {PathOfMemo(r, m) : m \in MemosOf(r)}
                       \cup {PathOfResource(r, x) : x \in ResourcesOf(r)}
        IN  /\ \A p \in derived :
                  /\ <<"remove", p>> \notin calls[r]
                  /\ (Latest(r) /\ before[r][p] # Absent) => files[p] # Absent
            /\ (AfterRun(r) /\ pc[r] = "success" /\ "remove" \notin FailedKinds(r)) =>
                  \A p \in Paths :
                      (p[1] = locals[r].folderToSync /\ before[r][p] # Absent
                       /\ p \notin derived) => files[p] = Absent

\* A run has settled that removed a memo orphan and a resource orphan and kept
\* a file of the snapshot, with writes of it issued as well.
C5_Witness ==
    \E r \in RunIds :
        /\ AfterRun(r) /\ pc[r] = "success" /\ "remove" \notin FailedKinds(r)
        /\ \E c \in calls[r] : c[1] = "remove" /\ c[2][2] = "memos"
        /\ \E c \in calls[r] : c[1] = "remove" /\ c[2][2] = "resources"
        /\ \E c \in calls[r] : c[1] = "write"
        /\ \E m \in MemosOf(r) : before[r][PathOfMemo(r, m)] # Absent

----------------------------------------------------------------------------
\* C6: a run that follows a successful run none of whose operations failed,
\* over the same snapshot and folder, issues no removal and leaves every file
\* as it was when it started, whatever its cutoff.
C6_Idempotence ==
    \A r \in RunIds :
        (/\ r > 1
         /\ pc[r] # "idle"
         /\ pc[r - 1] = "success" /\ failedOps[r - 1] = {}
         /\ remote = res[r - 1]
         /\ locals[r - 1].folderToSync = persisted.folderToSync) =>
            /\ \A c \in calls[r] : c[1] # "remove"
            /\ \A op \in InFlight(r) : op.kind # "remove"
            /\ Latest(r) => files = before[r]

\* A second run has settled whose cutoff skipped no memo and which wrote a memo
\* again, after a first run that changed the vault.
C6_Witness ==
    \E r \in RunIds :
        /\ r > 1
        /\ pc[r - 1] = "success" /\ failedOps[r - 1] = {}
        /\ AfterRun(r) /\ pc[r] = "success" /\ res[r] = res[r - 1]
        /\ before[r - 1] # before[r]
        /\ \E c \in calls[r - 1] : c[1] = "remove"
        /\ MemosOf(r) # {}
        /\ \A m \in MemosOf(r) :
              /\ ~OlderThan(locals[r].lastSyncTime, m)
              /\ <<"write", PathOfMemo(r, m)>> \in calls[r]

----------------------------------------------------------------------------
\* C7: a sync() call that loaded an empty credential reports the message and
\* ends: it calls neither the fetcher nor the store nor saveData, and leaves
\* files, folders and persisted settings as they were.
C7_EmptyCredential ==
    \A r \in RunIds :
        /\ (pc[r] \notin {"idle", "loading"} /\ locals[r].openAPI = "") =>
              /\ pc[r] = "nokey"
              /\ notices[r] = <<NoKeyMessage>>
              /\ ~fetched[r]
              /\ calls[r] = {}
              /\ InFlight(r) = {}
              /\ ~saved[r]
              /\ Latest(r) => (files = before[r] /\ persisted = locals[r])
        /\ pc[r] = "nokey" => locals[r].openAPI = ""

\* A sync() call ended on the empty credential, with work there to do.
C7_Witness ==
    \E r \in RunIds :
        /\ pc[r] = "nokey"
        /\ remote.memos # <<>>
        /\ remote.resources # <<>>

----------------------------------------------------------------------------
----------------------------------------------------------------------------
\* C9: when the write of a memo failed in a run, the next run over the same
\* snapshot issues a write for that memo (the cutoff does not skip it).
C9_FailedMemoRewritten ==
    \A r \in RunIds :
        \A m \in MemosOf(r) :
            (/\ r > 1
             /\ pc[r] \in {"listMemos", "listResources", "success"}
             /\ res[r] = res[r - 1]
             /\ <<"write", PathOfMemo(r, m)>> \in failedOps[r - 1]) =>
                <<"write", PathOfMemo(r, m)>> \in calls[r]

----------------------------------------------------------------------------
\* C10: at most one sync() call is between loading the settings and saving the
\* checkpoint at any moment.
C10_SingleRun ==
    \A r, q \in RunIds : (InProgress(r) /\ InProgress(q)) => r = q

----------------------------------------------------------------------------
\* The continuation of run r after `await adapter.list(.../memos)` runs in this
\* step, which is when the listing of the memos folder is read.
ReadsMemosListing(r) == pc[r] = "listMemos" /\ pc'[r] = "listResources"

\* Likewise for `await adapter.list(.../resources)`.
ReadsResourcesListing(r) == pc[r] = "listResources" /\ pc'[r] = "success"

\* C11: the listing of the memos folder is read only when every memo write
\* the run issued has completed, and the listing of the resources folder only
\* when every existence check and resource write it issued has completed.
C11_WriteBarrier ==
    [][\A r \in RunIds :
        /\ ReadsMemosListing(r) =>
               \A op \in InFlight(r) : op.kind # "write"
        /\ ReadsResourcesListing(r) =>
               \A op \in InFlight(r) : op.kind \notin {"exists", "writeBinary"}]_vars

----------------------------------------------------------------------------
\* C12: in the step in which a run calls saveData with the new lastSyncTime
\* (and logs success), no store operation of that run is in flight: neither
\* one issued earlier nor an orphan removal issued in that very step.
C12_PersistAfterReconciliation ==
    [][\A r \in RunIds :
        (~saved[r] /\ saved'[r]) =>
            /\ InFlight(r) = {}
            /\ {op \in pending' : op.run = r} = {}]_vars

----------------------------------------------------------------------------
\* The store operations issued once per item.
PerItemKinds == {"write", "writeBinary", "remove"}

\* The files of folder kind ("memos" or "resources") of run r's sync folder
\* that were there when the run started and are not among the expected paths.
OrphansOf(r, kind, expected) ==
    {p \in Paths : /\ p[1] = locals[r].folderToSync
                   /\ p[2] = kind
                   /\ before[r][p] # Absent
                   /\ p \notin expected}

\* When only per-item operations (memo writes, resource writes, orphan
\* removals) of a run have failed, the run does not take the failure path: the
\* write of every memo that is not skipped and the check of every resource have
\* been issued, the write of every resource found absent is issued, and once
\* the run has returned it has issued the removal of every orphan, logged
\* success and persisted the checkpoint.
C13_RunGoesOn ==
    \A r \in RunIds :
        (failedOps[r] # {} /\ FailedKinds(r) \subseteq PerItemKinds) =>
            /\ pc[r] \in {"listMemos", "listResources", "success"}
            /\ FailedMessage \notin Range(notices[r])
            /\ \A m \in MemosOf(r) :
                   ~OlderThan(locals[r].lastSyncTime, m) =>
                       <<"write", PathOfMemo(r, m)>> \in calls[r]
            /\ \A x \in ResourcesOf(r) :
                   /\ <<"exists", PathOfResource(r, x)>> \in calls[r]
                   /\ (before[r][PathOfResource(r, x)] = Absent
                       /\ \A op \in InFlight(r) : op.kind # "exists") =>
                          <<"writeBinary", PathOfResource(r, x)>> \in calls[r]
            /\ pc[r] \in {"listResources", "success"} =>
                   \A p \in OrphansOf(r, "memos",
                                      {PathOfMemo(r, m) : m \in MemosOf(r)}) :
                       <<"remove", p>> \in calls[r]
            /\ pc[r] = "success" =>
                   /\ \A p \in OrphansOf(r, "resources",
                                  {PathOfResource(r, x) : x \in ResourcesOf(r)}) :
                          <<"remove", p>> \in calls[r]
                   /\ SuccessMessage \in Range(notices[r])
                   /\ saved[r]
                   /\ Latest(r) => persisted.lastSyncTime = now

\* C13: in every reachable state, a run in which only per-item operations
\* have failed goes on as a run without failures does.
C13_BestEffortPerItem == [](C13_RunGoesOn)

\* A memo write failed in a run that went on to write another memo, to remove
\* an orphan and to persist the checkpoint.
C13_Witness ==
    \E r \in RunIds :
        /\ AfterRun(r)
        /\ "write" \in FailedKinds(r)
        /\ \E m \in MemosOf(r) :
               /\ <<"write", PathOfMemo(r, m)>> \notin failedOps[r]
               /\ before[r][PathOfMemo(r, m)] # m.content
               /\ files[PathOfMemo(r, m)] = m.content
        /\ \E c \in calls[r] : c[1] = "remove"
        /\ saved[r]
        /\ persisted.lastSyncTime = now

----------------------------------------------------------------------------
\* C14: a run in which a memo write, a resource write or an orphan removal has
\* failed does not show the success message.
C14_AggregatedFailureReporting ==
    \A r \in RunIds :
        FailedKinds(r) \cap PerItemKinds # {} =>
            SuccessMessage \notin Range(notices[r])

----------------------------------------------------------------------------
\* The paths run r has asked the store to remove.
RemovedBy(r) == {c[2] : c \in {d \in calls[r] : d[1] = "remove"}}

\* Every path a run removes is a file of one of the two folders of its
\* sync folder that was there to be listed; a file of the memos folder is
\* removed exactly when it is not the path of a memo of the snapshot, and a
\* file of the resources folder exactly when it is not the path of a resource
\* of the snapshot, whatever the other category holds.
C15_PrunedWithinCategory ==
    \A r \in RunIds :
        LET memoPaths == {PathOfMemo(r, m) : m \in MemosOf(r)}
            resourcePaths == {PathOfResource(r, x) : x \in ResourcesOf(r)}
        IN  /\ \A p \in RemovedBy(r) :
                   /\ p[1] = locals[r].folderToSync
                   /\ p[2] \in {"memos", "resources"}
                   /\ before[r][p] # Absent
                   /\ p[2] = "memos" => p \notin memoPaths
                   /\ p[2] = "resources" => p \notin resourcePaths
            /\ pc[r] \in {"listResources", "success"} =>
                   \A p \in OrphansOf(r, "memos", memoPaths) : p \in RemovedBy(r)
            /\ pc[r] = "success" =>
                   \A p \in OrphansOf(r, "resources", resourcePaths) :
                       p \in RemovedBy(r)

\* C15: in every reachable state, each run has pruned each of its two folders
\* by that folder's listing and that category's expected paths only.
C15_NoCrossDeletion == [](C15_PrunedWithinCategory)

\* A run has pruned both folders: it removed a memo file and kept a resource
\* file (of the snapshot) while the snapshot has memos, and the resources
\* folder held a file when it was listed.
C15_Witness ==
    \E r \in RunIds :
        /\ pc[r] = "success"
        /\ MemosOf(r) # {}
        /\ \E p \in RemovedBy(r) : p[2] = "memos"
        /\ \E x \in ResourcesOf(r) :
               /\ before[r][PathOfResource(r, x)] # Absent
               /\ PathOfResource(r, x) \notin RemovedBy(r)

----------------------------------------------------------------------------
\* The memo is not skipped under the cutoff T: T is unset, or the memo's
\* update time in milliseconds is at or after T.
AtOrAfter(T, memo) == T = NoTime \/ memo.updatedTs * 1000 >= T

\* The writes run r has in flight for the path.
WritesInFlight(r, path) ==
    {op \in InFlight(r) : op.kind = "write" /\ op.path = path}

\* Once a run has gone through its memos, for every memo that is at or
\* after the cutoff (equality included) the write of its path has been issued,
\* whether or not the file existed and whatever it held; the write carries the
\* memo's content and no other write of that path is in flight; and when the
\* write has succeeded, the file holds exactly the memo's content.
C16_WrittenWithContent ==
    \A r \in RunIds :
        pc[r] \in {"listMemos", "listResources", "success"} =>
            \A m \in MemosOf(r) :
                AtOrAfter(locals[r].lastSyncTime, m) =>
                    LET path == PathOfMemo(r, m)
                    IN  /\ <<"write", path>> \in calls[r]
                        /\ \A op \in WritesInFlight(r, path) :
                               op.content = m.content
                        /\ Cardinality(WritesInFlight(r, path)) <= 1
                        /\ (/\ WritesInFlight(r, path) = {}
                            /\ <<"write", path>> \notin failedOps[r]
                            /\ Latest(r)) =>
                               files[path] = m.content

\* C16: in every reachable state, every memo at or after the cutoff has its
\* write issued, and its file holds its content once the write has succeeded.
C16_NonSkippedOverwritten == [](C16_WrittenWithContent)

\* A memo updated exactly at the cutoff, whose file held other content, has
\* been overwritten by a run.
C16_Witness ==
    \E r \in RunIds :
        \E m \in MemosOf(r) :
            /\ locals[r].lastSyncTime # NoTime
            /\ m.updatedTs * 1000 = locals[r].lastSyncTime
            /\ before[r][PathOfMemo(r, m)] \notin {Absent, m.content}
            /\ <<"write", PathOfMemo(r, m)>> \in calls[r]
            /\ WritesInFlight(r, PathOfMemo(r, m)) = {}
            /\ files[PathOfMemo(r, m)] = m.content

----------------------------------------------------------------------------
\* The two folders run r ensures.
FoldersOf(r) ==
    {<<locals[r].folderToSync, "memos">>, <<locals[r].folderToSync, "resources">>}

\* Run r has made a store call on a file: a memo write, a resource check or
\* write, or a removal.
FileCalls(r) == {c \in calls[r] : Len(c[2]) = 3}

\* In every state: a store call of a run comes after its fetch has succeeded; a
\* call on a file comes after both folders have been checked and are there; a
\* run in which createFolder failed has ended on the failure path with no call
\* on a file, no listing, no saveData, and the persisted lastSyncTime it loaded.
C17_EnsuredBeforeWrites ==
    \A r \in RunIds :
        /\ calls[r] # {} => fetched[r] /\ "fetch" \notin FailedKinds(r)
        /\ FileCalls(r) # {} =>
               \A d \in FoldersOf(r) : <<"exists", d>> \in calls[r] /\ d \in dirs
        /\ "createFolder" \in FailedKinds(r) =>
               /\ pc[r] = "failed"
               /\ FailedMessage \in Range(notices[r])
               /\ FileCalls(r) = {}
               /\ \A c \in calls[r] : c[1] \in {"exists", "createFolder"}
               /\ ~saved[r]
               /\ Latest(r) => persisted.lastSyncTime = locals[r].lastSyncTime

\* In every step: createFolder is called only for one of the run's two
\* folders, after its existence check, and only when the folder is not there.
C17_CreatedOnlyIfAbsent ==
    \A r \in RunIds :
        \A c \in calls'[r] \ calls[r] :
            c[1] = "createFolder" =>
                /\ c[2] \in FoldersOf(r)
                /\ <<"exists", c[2]>> \in calls[r]
                /\ c[2] \notin dirs

\* C17: after a successful fetch and before any memo or resource write, a run
\* checks each of its two folders and calls createFolder only for one that
\* does not exist; when createFolder fails the run ends failed, with no memo
\* or resource write and no removal issued and lastSyncTime unchanged.
C17_FolderEnsuring ==
    [](C17_EnsuredBeforeWrites) /\ [][C17_CreatedOnlyIfAbsent]_vars

\* A run over a snapshot with memos created the memos folder, found the
\* resources folder missing too, and the creation of that one failed.
C17_Witness ==
    \E r \in RunIds :
        /\ Finished(r)
        /\ MemosOf(r) # {}
        /\ <<"createFolder", <<locals[r].folderToSync, "memos">>>> \in calls[r]
        /\ <<locals[r].folderToSync, "memos">> \in dirs
        /\ <<"createFolder", <<locals[r].folderToSync, "resources">>>>
               \in failedOps[r]

----------------------------------------------------------------------------
\* In every state: the sync folder is not the empty string in the in-memory
\* settings, in the persisted settings, in what a sync() call destructured, or
\* in the path of any store call.
C18_FolderNeverEmpty ==
    /\ settings.folderToSync # ""
    /\ persisted.folderToSync # ""
    /\ \A r \in RunIds :
           /\ locals[r].folderToSync # ""
           /\ fetched[r] => locals[r].folderToSync \in Folders
           /\ \A c \in calls[r] : c[2][1] # ""

\* In every step: entering the empty string in the folder field shows the
\* notice and leaves the in-memory and the persisted settings as they are.
C18_EmptyInputRefused ==
    SetFolderToSync("") =>
        /\ UNCHANGED <<settings, persisted>>
        /\ FolderMessage \in tabNotices'

\* C18: entering an empty folder name changes neither the in-memory
\* folderToSync nor the persisted settings, and no sync run performs a fetch
\* or a store operation with an empty sync folder.
C18_EmptyFolderName ==
    [](C18_FolderNeverEmpty) /\ [][C18_EmptyInputRefused]_vars

\* The empty folder name has been entered (the notice was shown), and a run
\* has fetched, issued a memo write and changed the vault.
C18_Witness ==
    /\ FolderMessage \in tabNotices
    /\ \E r \in RunIds :
           /\ fetched[r]
           /\ \E c \in calls[r] : c[1] = "write"
           /\ before[r] # files

----------------------------------------------------------------------------
\* C19: in every step of any sequence of sync runs and settings edits, the
\* persisted lastSyncTime does not decrease and, once set, is not unset.
C19_CheckpointMonotone ==
    [][/\ persisted'.lastSyncTime >= persisted.lastSyncTime
       /\ persisted.lastSyncTime # NoTime => persisted'.lastSyncTime # NoTime]_vars

----------------------------------------------------------------------------
\* The fields of the settings other than lastSyncTime.
Frame(s) == <<s.openAPI, s.folderToSync, s.debug>>

\* C20: in the step in which a run saves its checkpoint, the persisted
\* credential, sync folder and debug flag stay what they were persisted as, they
\* equal the in-memory ones (edits saved during the run included), and the
\* persisted lastSyncTime becomes the clock reading.
C20_PersistFrame ==
    [][\A r \in RunIds :
        (~saved[r] /\ saved'[r]) =>
            /\ Frame(persisted') = Frame(persisted)
            /\ Frame(persisted') = Frame(settings')
            /\ Frame(settings') = Frame(settings)
            /\ persisted'.lastSyncTime = now']_vars

\* A run has saved its checkpoint after the user changed the credential, the
\* folder or the debug flag while it was in progress: the persisted settings
\* hold the new time and the edited field.
C20_Witness ==
    \E r \in RunIds :
        /\ saved[r]
        /\ pc[r] = "success"
        /\ persisted.lastSyncTime = now
        /\ persisted.lastSyncTime # locals[r].lastSyncTime
        /\ Frame(persisted) # Frame(locals[r])
        /\ Frame(persisted) = Frame(settings)

====
